---- MODULE Spec2Model ----
(***************************************************************************)
(* Model of the libps lexical scanner (package interpret) and of its       *)
(* cursor (package runes).  The source text is a sequence of codepoints    *)
(* (integers); the cursor position counts consumed codepoints.  The        *)
(* codepoint RuneError stands for U+FFFD, which is also what the decoder   *)
(* delivers for a malformed byte.                                          *)
(***************************************************************************)
EXTENDS Integers, Sequences, FiniteSets, TLC

VARIABLES src, pos, last, prev, panicked, itPc, yielded

vars == <<src, pos, last, prev, panicked, itPc, yielded>>

(***************************************************************************)
(* Bounds of the model.                                                    *)
(***************************************************************************)
MaxLen == 5
MaxStrLen == 4
MaxCursorLen == 4
MaxPeek == 3
MaxTokensLen == 4
MaxB85Len == 6
MaxEscLen == 4
MaxOctLen == 6
MaxDelimLen == 5
MaxSeqLen == 5
MaxLeadLen == 6
MaxMonoLen == 4
MaxPullLen == 4

(***************************************************************************)
(* Codepoints named by the scanner.                                        *)
(***************************************************************************)
NUL == 0
BS == 8
TAB == 9
LF == 10
FF == 12
CR == 13
SP == 32
PERCENT == 37
LPAREN == 40
RPAREN == 41
MINUS == 45
DOT == 46
HASH == 35
LT == 60
GT == 62
BACKSLASH == 92
TILDE == 126
BANG == 33
LowerE == 101
UpperE == 69
LowerN == 110
LowerR == 114
LowerT == 116
LowerB == 98
LowerF == 102
LowerU == 117
LowerX == 120
LowerZ == 122
Digit0 == 48
Digit1 == 49
Digit7 == 55
Digit9 == 57
RuneError == 65533

\* The size of the buffer of bufio.NewReader.
BufferSize == 4096

Delimiters == {NUL, SP, TAB, CR, LF, BS, FF}
Digits == Digit0..Digit9
\* The octal digits with '8' and '9' let in.
OctalDigits_WithNine == Digit0..Digit9

OctalDigits == Digit0..Digit7
\* The digit list of readRadix (line 195) without its upper-case letters.
RadixDigits_NoUpper == (Digit0..Digit9) \cup (97..122)

RadixDigits == Digits \cup (97..122) \cup (65..90)
HexDigits == Digits \cup (97..102) \cup (65..70)

(***************************************************************************)
(* Token kinds (type TokenType).                                           *)
(***************************************************************************)
UNKNOWN_TOKEN == 0
INT_TOKEN == 1
REAL_TOKEN == 2
RADIX_TOKEN == 3
LIT_STRING_TOKEN == 4
HEX_STRING_TOKEN == 5
BASE85_STRING_TOKEN == 6
NAME_TOKEN == 7

(***************************************************************************)
(* Error values.  NoError is Go's nil error, EOF is io.EOF, Panic is the   *)
(* run-time panic of an out-of-range index.                                *)
(***************************************************************************)
NoError == [Type |-> "nil", Message |-> ""]
EOF == [Type |-> "io", Message |-> "EOF"]
RuneErr == [Type |-> "errors", Message |-> "rune error"]
Panic == [Type |-> "panic", Message |-> "index out of range"]
NewSyntaxError(message) == [Type |-> "syntaxerror", Message |-> message]

Contains(arr, value) == \E i \in 1..Len(arr) : arr[i] = value

(***************************************************************************)
(* The cursor: runes.Reader over a bufio.Reader.  s is the source, p the   *)
(* number of codepoints already consumed.                                  *)
(***************************************************************************)
ReadRune(s, p) ==
    IF p < Len(s)
    THEN [char |-> s[p + 1], err |-> NoError, pos |-> p + 1]
    ELSE [char |-> 0, err |-> EOF, pos |-> p]

\* utf8.RuneLen, and the byte length of a codepoint sequence.
RuneLen(c) == IF c < 128 THEN 1 ELSE IF c < 2048 THEN 2 ELSE IF c < 65536 THEN 3 ELSE 4

RECURSIVE ByteLen(_)
ByteLen(word) == IF word = <<>> THEN 0 ELSE RuneLen(Head(word)) + ByteLen(Tail(word))

\* The loop of PeekRunes: i codepoints are still wanted, word is what has
\* been peeked.  bufio's Peek fails beyond the end of the source and beyond
\* its buffer, and then the loop adds nothing for this codepoint.
RECURSIVE PeekLoop(_, _, _, _)
PeekLoop(s, p, i, word) ==
    IF i = 0 THEN [word |-> word, err |-> NoError]
    ELSE IF p + Len(word) >= Len(s) \/ ByteLen(word) >= BufferSize
         THEN PeekLoop(s, p, i - 1, word)
         ELSE LET char == s[p + Len(word) + 1] IN
              IF char = RuneError \/ ByteLen(word) + RuneLen(char) > BufferSize
              THEN [word |-> <<>>, err |-> RuneErr]
              ELSE PeekLoop(s, p, i - 1, Append(word, char))

\* PeekRunes without line 39 (peekOffset is never advanced): every turn of
\* the loop decodes the first codepoint again.
PeekRunes_NoOffset(s, p, n) ==
    IF n < 1 THEN [word |-> <<>>, err |-> NoError]
    ELSE IF p >= Len(s) THEN [word |-> <<>>, err |-> NoError]
    ELSE IF s[p + 1] = RuneError THEN [word |-> <<>>, err |-> RuneErr]
    ELSE [word |-> [k \in 1..n |-> s[p + 1]], err |-> NoError]

PeekRunes(s, p, n) ==
    IF n < 1 THEN [word |-> <<>>, err |-> NoError]
    ELSE PeekLoop(s, p, n, <<>>)

RECURSIVE ReadRunesLoop(_, _, _, _)
ReadRunesLoop(s, p, i, word) ==
    IF i <= 0 THEN [word |-> word, err |-> NoError, pos |-> p]
    ELSE LET r == ReadRune(s, p) IN
         IF r.err # NoError
         THEN [word |-> word, err |-> r.err, pos |-> p]
         ELSE ReadRunesLoop(s, r.pos, i - 1, Append(word, r.char))

ReadRunes(s, p, n) == ReadRunesLoop(s, p, n, <<>>)

(***************************************************************************)
(* Tokens and scan results.  A result is what one ReadToken call hands     *)
(* back (the token and the error) together with the cursor position the    *)
(* call leaves behind.                                                     *)
(***************************************************************************)
Result(type, value, err, p) ==
    [Type |-> type, Value |-> value, err |-> err, pos |-> p]

\* ascii85.Decode(dst, src, flush) of the Go library, reduced to its error
\* result; dstLen is len(dst), nb the number of characters of the open group.
RECURSIVE Ascii85Decode(_, _, _, _, _)
Ascii85Decode(dstLen, bytes, i, ndst, nb) ==
    IF i > Len(bytes)
    THEN IF nb = 1 THEN FALSE ELSE TRUE
    ELSE IF dstLen - ndst < 4 THEN TRUE
    ELSE LET b == bytes[i] IN
         CASE b <= SP -> Ascii85Decode(dstLen, bytes, i + 1, ndst, nb)
           [] b > SP /\ b = LowerZ /\ nb = 0 ->
                Ascii85Decode(dstLen, bytes, i + 1, ndst + 4, 0)
           [] b > SP /\ ~(b = LowerZ /\ nb = 0) /\ BANG <= b /\ b <= LowerU ->
                IF nb + 1 = 5
                THEN Ascii85Decode(dstLen, bytes, i + 1, ndst + 4, 0)
                ELSE Ascii85Decode(dstLen, bytes, i + 1, ndst, nb + 1)
           [] OTHER -> FALSE

\* runes.ToUTF8: the UTF-8 bytes of a codepoint sequence.
EncodeRune(c) ==
    IF c < 128 THEN <<c>>
    ELSE IF c < 2048 THEN <<192 + (c \div 64), 128 + (c % 64)>>
    ELSE IF c < 65536
         THEN <<224 + (c \div 4096), 128 + ((c \div 64) % 64), 128 + (c % 64)>>
         ELSE <<240 + (c \div 262144), 128 + ((c \div 4096) % 64),
                128 + ((c \div 64) % 64), 128 + (c % 64)>>

RECURSIVE ToUTF8(_)
ToUTF8(rs) ==
    IF rs = <<>> THEN <<>> ELSE EncodeRune(Head(rs)) \o ToUTF8(Tail(rs))

\* strconv.ParseInt(string(octal), 8, 32) on one to three codepoints.
RECURSIVE OctalValue(_, _)
OctalValue(octal, acc) ==
    IF octal = <<>> THEN acc
    ELSE OctalValue(Tail(octal), acc * 8 + (Head(octal) - Digit0))

\* ParseOctal with the value cut to one byte.
ParseOctal_Masked(octal) ==
    IF \A i \in 1..Len(octal) : octal[i] \in OctalDigits
    THEN [value |-> OctalValue(octal, 0) % 256, err |-> NoError]
    ELSE [value |-> 0, err |-> NewSyntaxError("unrecognized escape sequence")]

ParseOctal(octal) ==
    IF \A i \in 1..Len(octal) : octal[i] \in OctalDigits
    THEN [value |-> OctalValue(octal, 0), err |-> NoError]
    ELSE [value |-> 0, err |-> NewSyntaxError("unrecognized escape sequence")]

RECURSIVE readComment(_, _)

\* readComment without the test of '\f' of line 82.
readComment_OnlyLF(s, p) ==
    LET r == ReadRune(s, p) IN
    IF r.err # NoError THEN [err |-> r.err, pos |-> r.pos]
    ELSE IF r.char = LF THEN [err |-> NoError, pos |-> r.pos]
    ELSE readComment(s, r.pos)

readComment(s, p) ==
    LET r == ReadRune(s, p) IN
    IF r.err # NoError THEN [err |-> r.err, pos |-> r.pos]
    ELSE IF r.char = LF \/ r.char = FF THEN [err |-> NoError, pos |-> r.pos]
    ELSE readComment(s, r.pos)

RECURSIVE readName(_, _, _)

\* readName with a delimiter list that lacks '\b'.
readName_NoBackspace(s, p, value) ==
    LET r == ReadRune(s, p) IN
    IF r.err = EOF THEN Result(NAME_TOKEN, value, NoError, r.pos)
    ELSE IF Contains(<<NUL, SP, TAB, CR, LF, FF>>, r.char)
         THEN Result(NAME_TOKEN, value, NoError, r.pos)
         ELSE readName(s, r.pos, Append(value, r.char))

readName(s, p, value) ==
    LET r == ReadRune(s, p) IN
    IF r.err = EOF THEN Result(NAME_TOKEN, value, NoError, r.pos)
    ELSE IF Contains(<<NUL, SP, TAB, CR, LF, BS, FF>>, r.char)
         THEN Result(NAME_TOKEN, value, NoError, r.pos)
         ELSE readName(s, r.pos, Append(value, r.char))

RECURSIVE readRadix(_, _, _)

\* readRadix without the tests of hasTrailingHash (lines 180 to 182 and 191
\* to 193): the end of the input or a delimiter ends the token in any case.
readRadix_TrailingHashAccepted(s, p, value) ==
    LET r == ReadRune(s, p) IN
    IF r.err = EOF THEN Result(RADIX_TOKEN, value, NoError, r.pos)
    ELSE CASE r.char \in Delimiters -> Result(RADIX_TOKEN, value, NoError, r.pos)
           [] r.char \in RadixDigits -> readRadix(s, r.pos, Append(value, r.char))
           [] OTHER -> readName(s, r.pos, Append(value, r.char))

readRadix(s, p, value) ==
    LET hasTrailingHash == value[Len(value)] = HASH
        r == ReadRune(s, p)
    IN  IF r.err = EOF
        THEN IF hasTrailingHash
             THEN Result(RADIX_TOKEN, value,
                         NewSyntaxError("unexpected end of radix number"), r.pos)
             ELSE Result(RADIX_TOKEN, value, NoError, r.pos)
        ELSE CASE r.char \in Delimiters ->
                    IF hasTrailingHash
                    THEN Result(RADIX_TOKEN, value,
                                NewSyntaxError("unexpected end of radix number"), r.pos)
                    ELSE Result(RADIX_TOKEN, value, NoError, r.pos)
               [] r.char \in RadixDigits -> readRadix(s, r.pos, Append(value, r.char))
               [] OTHER -> readName(s, r.pos, Append(value, r.char))

\* RealStep whose default case (lines 162 to 164) hands the scan to
\* readName without line 163: the unexpected character is not appended.
RealStep_OtherDropped(value, char) ==
    LET hasTrailingExponent ==
            value[Len(value)] = LowerE \/ value[Len(value)] = UpperE
    IN  CASE char = LowerE \/ char = UpperE ->
                IF Contains(value, LowerE) \/ Contains(value, UpperE)
                THEN [value |-> value, toName |-> TRUE]
                ELSE [value |-> Append(value, char), toName |-> FALSE]
          [] char = MINUS ->
                IF ~hasTrailingExponent
                THEN [value |-> value, toName |-> TRUE]
                ELSE [value |-> Append(value, char), toName |-> FALSE]
          [] char \in Digits -> [value |-> Append(value, char), toName |-> FALSE]
          [] OTHER -> [value |-> value, toName |-> TRUE]

\* RealStep without the case for '-' (lines 155 to 159): a '-' falls to the
\* default case, also after an exponent marker.
RealStep_NoExponentSign(value, char) ==
    CASE char = LowerE \/ char = UpperE ->
            IF Contains(value, LowerE) \/ Contains(value, UpperE)
            THEN [value |-> value, toName |-> TRUE]
            ELSE [value |-> Append(value, char), toName |-> FALSE]
      [] char \in Digits -> [value |-> Append(value, char), toName |-> FALSE]
      [] OTHER -> [value |-> Append(value, char), toName |-> TRUE]

\* One character of readReal's switch, for a character that is not a
\* delimiter: the accumulated text handed on, and whether the scan is
\* handed to readName.
RealStep(value, char) ==
    LET hasTrailingExponent ==
            value[Len(value)] = LowerE \/ value[Len(value)] = UpperE
    IN  CASE char = LowerE \/ char = UpperE ->
                IF Contains(value, LowerE) \/ Contains(value, UpperE)
                THEN [value |-> value, toName |-> TRUE]
                ELSE [value |-> Append(value, char), toName |-> FALSE]
          [] char = MINUS ->
                IF ~hasTrailingExponent
                THEN [value |-> value, toName |-> TRUE]
                ELSE [value |-> Append(value, char), toName |-> FALSE]
          [] char \in Digits -> [value |-> Append(value, char), toName |-> FALSE]
          [] OTHER -> [value |-> Append(value, char), toName |-> TRUE]

RECURSIVE readReal(_, _, _)
readReal(s, p, value) ==
    LET hasTrailingExponent ==
            value[Len(value)] = LowerE \/ value[Len(value)] = UpperE
        r == ReadRune(s, p)
    IN  IF r.err = EOF
        THEN IF hasTrailingExponent
             THEN Result(REAL_TOKEN, value,
                         NewSyntaxError("unexpected end of real number"), r.pos)
             ELSE Result(REAL_TOKEN, value, NoError, r.pos)
        ELSE IF r.char \in Delimiters
        THEN IF hasTrailingExponent
             THEN Result(REAL_TOKEN, value,
                         NewSyntaxError("unexpected end of real number"), r.pos)
             ELSE Result(REAL_TOKEN, value, NoError, r.pos)
        ELSE LET st == RealStep(value, r.char) IN
             IF st.toName THEN readName(s, r.pos, st.value)
             ELSE readReal(s, r.pos, st.value)

RECURSIVE readNumeric(_, _, _)

\* readNumeric without line 107: a digit is read and not appended.
readNumeric_DropsDigit(s, p, value) ==
    LET r == ReadRune(s, p) IN
    IF r.err = EOF THEN Result(INT_TOKEN, value, NoError, r.pos)
    ELSE CASE r.char \in Delimiters -> Result(INT_TOKEN, value, NoError, r.pos)
           [] r.char \in Digits -> readNumeric(s, r.pos, value)
           [] r.char = DOT -> readReal(s, r.pos, Append(value, r.char))
           [] r.char = HASH ->
                IF value[1] = MINUS
                THEN Result(INT_TOKEN, value,
                            NewSyntaxError("radix number cannot have a negative base"),
                            r.pos)
                ELSE readRadix(s, r.pos, Append(value, r.char))
           [] OTHER -> readName(s, r.pos, Append(value, r.char))

\* readNumeric without the test of lines 112 to 114: a '#' after a negative
\* base is handed to readRadix like any other.
readNumeric_NegativeBase(s, p, value) ==
    LET r == ReadRune(s, p) IN
    IF r.err = EOF THEN Result(INT_TOKEN, value, NoError, r.pos)
    ELSE CASE r.char \in Delimiters -> Result(INT_TOKEN, value, NoError, r.pos)
           [] r.char \in Digits -> readNumeric(s, r.pos, Append(value, r.char))
           [] r.char = DOT -> readReal(s, r.pos, Append(value, r.char))
           [] r.char = HASH -> readRadix(s, r.pos, Append(value, r.char))
           [] OTHER -> readName(s, r.pos, Append(value, r.char))

readNumeric(s, p, value) ==
    LET r == ReadRune(s, p) IN
    IF r.err = EOF THEN Result(INT_TOKEN, value, NoError, r.pos)
    ELSE CASE r.char \in Delimiters -> Result(INT_TOKEN, value, NoError, r.pos)
           [] r.char \in Digits -> readNumeric(s, r.pos, Append(value, r.char))
           [] r.char = DOT -> readReal(s, r.pos, Append(value, r.char))
           [] r.char = HASH ->
                IF value[1] = MINUS
                THEN Result(INT_TOKEN, value,
                            NewSyntaxError("radix number cannot have a negative base"),
                            r.pos)
                ELSE readRadix(s, r.pos, Append(value, r.char))
           [] OTHER -> readName(s, r.pos, Append(value, r.char))

\* EscapeChar without the case 'f' of lines 244 to 245.
EscapeChar_NoFormFeed(afterSlash) ==
    CASE afterSlash = LowerN -> LF
      [] afterSlash = LowerR -> CR
      [] afterSlash = LowerT -> TAB
      [] afterSlash = LowerB -> BS
      [] OTHER -> afterSlash

\* The character a named escape stands for (the switch on afterSlash).
EscapeChar(afterSlash) ==
    CASE afterSlash = LowerN -> LF
      [] afterSlash = LowerR -> CR
      [] afterSlash = LowerT -> TAB
      [] afterSlash = LowerB -> BS
      [] afterSlash = LowerF -> FF
      [] OTHER -> afterSlash

RECURSIVE readLiteralString(_, _, _, _)

\* readLiteralString without the activeParens++ of line 223.
readLiteralString_OpenNotCounted(s, p, value, activeParens) ==
    LET r == ReadRune(s, p) IN
    IF r.err = EOF
    THEN Result(LIT_STRING_TOKEN, value,
                NewSyntaxError("unexpected end of file"), r.pos)
    ELSE CASE r.char = LPAREN ->
                readLiteralString(s, r.pos, Append(value, LPAREN), activeParens)
           [] r.char = RPAREN ->
                IF activeParens < 1
                THEN Result(LIT_STRING_TOKEN, value, NoError, r.pos)
                ELSE readLiteralString(s, r.pos, Append(value, RPAREN),
                                       activeParens - 1)
           [] r.char = BACKSLASH ->
                LET a == ReadRune(s, r.pos) IN
                IF a.err # NoError
                THEN Result(LIT_STRING_TOKEN, value, a.err, a.pos)
                ELSE CASE a.char = LF ->
                            readLiteralString(s, a.pos, value, activeParens)
                       [] a.char = CR ->
                            LET afterCrlf == PeekRunes(s, a.pos, 1) IN
                            IF afterCrlf.err # NoError
                            THEN Result(LIT_STRING_TOKEN, value, afterCrlf.err, a.pos)
                            ELSE IF Len(afterCrlf.word) = 0
                            THEN Result(LIT_STRING_TOKEN, value, Panic, a.pos)
                            ELSE IF afterCrlf.word[1] = LF
                            THEN readLiteralString(s, ReadRune(s, a.pos).pos, value,
                                                   activeParens)
                            ELSE readLiteralString(s, a.pos, value, activeParens)
                       [] a.char \in OctalDigits ->
                            LET nextDigits == PeekRunes(s, a.pos, 2) IN
                            IF nextDigits.err # NoError
                            THEN Result(LIT_STRING_TOKEN, value, NoError, a.pos)
                            ELSE LET parsed == ParseOctal(<<a.char>> \o nextDigits.word) IN
                                 IF parsed.err # NoError
                                 THEN Result(LIT_STRING_TOKEN, value, parsed.err, a.pos)
                                 ELSE LET rr == ReadRunes(s, a.pos, 2) IN
                                      IF rr.err # NoError
                                      THEN Result(LIT_STRING_TOKEN, value, rr.err, rr.pos)
                                      ELSE readLiteralString(s, rr.pos,
                                               Append(value, parsed.value), activeParens)
                       [] OTHER ->
                            readLiteralString(s, a.pos,
                                Append(value, EscapeChar(a.char)), activeParens)
           [] OTHER -> readLiteralString(s, r.pos, Append(value, r.char), activeParens)

readLiteralString(s, p, value, activeParens) ==
    LET r == ReadRune(s, p) IN
    IF r.err = EOF
    THEN Result(LIT_STRING_TOKEN, value,
                NewSyntaxError("unexpected end of file"), r.pos)
    ELSE CASE r.char = LPAREN ->
                readLiteralString(s, r.pos, Append(value, LPAREN), activeParens + 1)
           [] r.char = RPAREN ->
                IF activeParens < 1
                THEN Result(LIT_STRING_TOKEN, value, NoError, r.pos)
                ELSE readLiteralString(s, r.pos, Append(value, RPAREN),
                                       activeParens - 1)
           [] r.char = BACKSLASH ->
                LET a == ReadRune(s, r.pos) IN
                IF a.err # NoError
                THEN Result(LIT_STRING_TOKEN, value, a.err, a.pos)
                ELSE CASE a.char = LF ->
                            readLiteralString(s, a.pos, value, activeParens)
                       [] a.char = CR ->
                            LET afterCrlf == PeekRunes(s, a.pos, 1) IN
                            IF afterCrlf.err # NoError
                            THEN Result(LIT_STRING_TOKEN, value, afterCrlf.err, a.pos)
                            ELSE IF Len(afterCrlf.word) = 0
                            THEN Result(LIT_STRING_TOKEN, value, Panic, a.pos)
                            ELSE IF afterCrlf.word[1] = LF
                            THEN readLiteralString(s, ReadRune(s, a.pos).pos, value,
                                                   activeParens)
                            ELSE readLiteralString(s, a.pos, value, activeParens)
                       [] a.char \in OctalDigits ->
                            LET nextDigits == PeekRunes(s, a.pos, 2) IN
                            IF nextDigits.err # NoError
                            THEN Result(LIT_STRING_TOKEN, value, NoError, a.pos)
                            ELSE LET parsed == ParseOctal(<<a.char>> \o nextDigits.word) IN
                                 IF parsed.err # NoError
                                 THEN Result(LIT_STRING_TOKEN, value, parsed.err, a.pos)
                                 ELSE LET rr == ReadRunes(s, a.pos, 2) IN
                                      IF rr.err # NoError
                                      THEN Result(LIT_STRING_TOKEN, value, rr.err, rr.pos)
                                      ELSE readLiteralString(s, rr.pos,
                                               Append(value, parsed.value), activeParens)
                       [] OTHER ->
                            readLiteralString(s, a.pos,
                                Append(value, EscapeChar(a.char)), activeParens)
           [] OTHER -> readLiteralString(s, r.pos, Append(value, r.char), activeParens)

RECURSIVE readHexString(_, _, _)

\* readHexString with a case that skips the delimiters inside the body.
readHexString_SkipsBlanks(s, p, value) ==
    LET r == ReadRune(s, p) IN
    IF r.err = EOF THEN Result(HEX_STRING_TOKEN, value, NoError, r.pos)
    ELSE CASE r.char = GT ->
                IF Len(value) % 2 # 0
                THEN Result(HEX_STRING_TOKEN, Append(value, Digit0), NoError, r.pos)
                ELSE Result(HEX_STRING_TOKEN, value, NoError, r.pos)
           [] r.char \in HexDigits -> readHexString(s, r.pos, Append(value, r.char))
           [] r.char \in Delimiters -> readHexString(s, r.pos, value)
           [] OTHER -> Result(HEX_STRING_TOKEN, value,
                              NewSyntaxError("invalid hexidecimal"), r.pos)

readHexString(s, p, value) ==
    LET r == ReadRune(s, p) IN
    IF r.err = EOF THEN Result(HEX_STRING_TOKEN, value, NoError, r.pos)
    ELSE CASE r.char = GT ->
                IF Len(value) % 2 # 0
                THEN Result(HEX_STRING_TOKEN, Append(value, Digit0), NoError, r.pos)
                ELSE Result(HEX_STRING_TOKEN, value, NoError, r.pos)
           [] r.char \in HexDigits -> readHexString(s, r.pos, Append(value, r.char))
           [] OTHER -> Result(HEX_STRING_TOKEN, value,
                              NewSyntaxError("invalid hexidecimal"), r.pos)

\* The check after readBase85String's loop: ascii85.Decode(nil, ...).
Base85Check(value, p) ==
    IF Ascii85Decode(0, ToUTF8(value), 1, 0, 0)
    THEN Result(BASE85_STRING_TOKEN, value, NoError, p)
    ELSE Result(BASE85_STRING_TOKEN, value, NewSyntaxError("invalid base85"), p)

RECURSIVE readBase85String(_, _, _)

\* readBase85String without the token.Append(char) of line 345.
readBase85String_TildeDropped(s, p, value) ==
    LET r == ReadRune(s, p) IN
    IF r.err = EOF THEN Base85Check(value, r.pos)
    ELSE IF r.char = TILDE
    THEN LET next == PeekRunes(s, r.pos, 1) IN
         IF next.err # NoError
         THEN Result(BASE85_STRING_TOKEN, value, next.err, r.pos)
         ELSE IF Len(next.word) = 0
         THEN Result(BASE85_STRING_TOKEN, value, Panic, r.pos)
         ELSE IF next.word[1] = GT
         THEN Base85Check(value, ReadRune(s, r.pos).pos)
         ELSE readBase85String(s, r.pos, value)
    ELSE readBase85String(s, r.pos, Append(value, r.char))

readBase85String(s, p, value) ==
    LET r == ReadRune(s, p) IN
    IF r.err = EOF THEN Base85Check(value, r.pos)
    ELSE IF r.char = TILDE
    THEN LET next == PeekRunes(s, r.pos, 1) IN
         IF next.err # NoError
         THEN Result(BASE85_STRING_TOKEN, value, next.err, r.pos)
         ELSE IF Len(next.word) = 0
         THEN Result(BASE85_STRING_TOKEN, value, Panic, r.pos)
         ELSE IF next.word[1] = GT
         THEN Base85Check(value, ReadRune(s, r.pos).pos)
         ELSE readBase85String(s, r.pos, Append(value, r.char))
    ELSE readBase85String(s, r.pos, Append(value, r.char))

RECURSIVE ReadToken(_, _)
ReadToken(s, p) ==
    LET r == ReadRune(s, p) IN
    IF r.err # NoError THEN Result(UNKNOWN_TOKEN, <<>>, r.err, r.pos)
    ELSE CASE r.char \in Delimiters -> ReadToken(s, r.pos)
           [] r.char = PERCENT ->
                LET c == readComment(s, r.pos) IN
                IF c.err # NoError
                THEN Result(UNKNOWN_TOKEN, <<>>, c.err, c.pos)
                ELSE ReadToken(s, c.pos)
           [] r.char = DOT -> readReal(s, r.pos, <<r.char>>)
           [] r.char = MINUS \/ r.char \in Digits -> readNumeric(s, r.pos, <<r.char>>)
           [] r.char = LPAREN -> readLiteralString(s, r.pos, <<>>, 0)
           [] r.char = LT ->
                LET next == PeekRunes(s, r.pos, 1) IN
                IF next.err # NoError
                THEN Result(UNKNOWN_TOKEN, <<>>, next.err, r.pos)
                ELSE IF Len(next.word) = 0
                THEN Result(UNKNOWN_TOKEN, <<>>, Panic, r.pos)
                ELSE IF next.word[1] = TILDE
                THEN readBase85String(s, ReadRune(s, r.pos).pos, <<>>)
                ELSE readHexString(s, r.pos, <<>>)
           [] OTHER -> readName(s, r.pos, <<r.char>>)

(***************************************************************************)
(* State.  src is the source text and pos the cursor position; last and    *)
(* prev record the two most recent calls (operation, argument, position    *)
(* before the call and what the call returned); panicked is set once a     *)
(* call has aborted; itPc and yielded are the state of the Tokens() view   *)
(* and what it has handed to its consumer so far.                          *)
(***************************************************************************)
SeqsUpTo(alphabet, n) == UNION {[1..k -> alphabet] : k \in 0..n}

NumAlphabet == {SP, PERCENT, LF, MINUS, DOT, HASH, Digit1, LowerE, UpperE, LowerX}
StrAlphabet == {SP, PERCENT, LPAREN, RPAREN, BACKSLASH, CR, LF, LT, TILDE, GT,
                Digit1, RuneError}
CursorAlphabet == {LowerX, Digit1, RuneError}
TokensAlphabet == {SP, PERCENT, LF, HASH, Digit1, LowerX, LPAREN, RPAREN}
B85Alphabet == {SP, LT, TILDE, GT, Digit1, LowerX, LowerZ}
EscAlphabet == {LPAREN, RPAREN, BACKSLASH, LowerN, LowerR, LowerT, LowerB, LowerF,
                LF, CR, RuneError}
OctAlphabet == {LPAREN, RPAREN, BACKSLASH, Digit1, Digit7, Digit9}
DelimAlphabet == {NUL, SP, TAB, CR, LF, BS, FF, PERCENT, LowerX}
SeqAlphabet == {SP, PERCENT, LF, DOT, Digit1, LowerX, LPAREN, RPAREN}
LeadAlphabet == {LT, TILDE, GT, Digit1, RuneError}
MonoAlphabet == {SP, Digit1, LowerX, LT}
PullAlphabet == {SP, PERCENT, LF, Digit1, LowerX, LPAREN, RPAREN, LT}
ContAlphabet == {LPAREN, RPAREN, BACKSLASH, LF, CR, RuneError}

NoCall ==
    [op |-> "none", n |-> 0, pos0 |-> 0, Type |-> UNKNOWN_TOKEN, Value |-> <<>>,
     err |-> NoError, word |-> <<>>]

InitWith(inputs, pc) ==
    /\ src \in inputs
    /\ pos = 0
    /\ last = NoCall
    /\ prev = NoCall
    /\ panicked = FALSE
    /\ itPc = pc
    /\ yielded = <<>>

Init == InitWith(SeqsUpTo(NumAlphabet, MaxLen), "idle")
InitStr == InitWith(SeqsUpTo(StrAlphabet, MaxStrLen), "idle")
InitCursor == InitWith(SeqsUpTo(CursorAlphabet, MaxCursorLen), "idle")
InitTokens == InitWith(SeqsUpTo(TokensAlphabet, MaxTokensLen), "loop")
\* Texts of named escapes, and the longer texts of line continuations.
InitEsc ==
    InitWith(SeqsUpTo(EscAlphabet, MaxEscLen) \cup SeqsUpTo(ContAlphabet, MaxEscLen + 1),
             "idle")
InitOct == InitWith(SeqsUpTo(OctAlphabet, MaxOctLen), "idle")
InitDelim == InitWith(SeqsUpTo(DelimAlphabet, MaxDelimLen), "idle")
InitSeq == InitWith(SeqsUpTo(SeqAlphabet, MaxSeqLen), "loop")
InitLead == InitWith(SeqsUpTo(LeadAlphabet, MaxLeadLen), "idle")
InitMono == InitWith(SeqsUpTo(MonoAlphabet, MaxMonoLen), "idle")
InitPull == InitWith(SeqsUpTo(PullAlphabet, MaxPullLen), "loop")
InitB85 == InitWith(SeqsUpTo(B85Alphabet, MaxB85Len), "idle")

\* One call of scanner.ReadToken by the owner of the scanner.
DoReadToken ==
    /\ ~panicked
    /\ itPc = "idle"
    /\ LET r == ReadToken(src, pos) IN
         /\ pos' = r.pos
         /\ last' = [op |-> "ReadToken", n |-> 0, pos0 |-> pos, Type |-> r.Type,
                     Value |-> r.Value, err |-> r.err, word |-> <<>>]
         /\ panicked' = (r.err = Panic)
    /\ prev' = last
    /\ UNCHANGED <<src, itPc, yielded>>

\* DoPeekRunes with the peeked codepoints consumed.
DoPeekRunes_Consumes(n) ==
    /\ ~panicked
    /\ itPc = "idle"
    /\ LET r == PeekRunes(src, pos, n) IN
         /\ pos' = pos + Len(r.word)
         /\ last' = [op |-> "PeekRunes", n |-> n, pos0 |-> pos, Type |-> UNKNOWN_TOKEN,
                     Value |-> <<>>, err |-> r.err, word |-> r.word]
    /\ prev' = last
    /\ UNCHANGED <<src, panicked, itPc, yielded>>

\* One call of Reader.PeekRunes(n).
DoPeekRunes(n) ==
    /\ ~panicked
    /\ itPc = "idle"
    /\ LET r == PeekRunes(src, pos, n) IN
         last' = [op |-> "PeekRunes", n |-> n, pos0 |-> pos, Type |-> UNKNOWN_TOKEN,
                  Value |-> <<>>, err |-> r.err, word |-> r.word]
    /\ prev' = last
    /\ UNCHANGED <<src, pos, panicked, itPc, yielded>>

\* One call of Reader.ReadRunes(n).
DoReadRunes(n) ==
    /\ ~panicked
    /\ itPc = "idle"
    /\ LET r == ReadRunes(src, pos, n) IN
         /\ pos' = r.pos
         /\ last' = [op |-> "ReadRunes", n |-> n, pos0 |-> pos, Type |-> UNKNOWN_TOKEN,
                     Value |-> <<>>, err |-> r.err, word |-> r.word]
    /\ prev' = last
    /\ UNCHANGED <<src, panicked, itPc, yielded>>

\* One turn of the loop of scanner.Tokens in which the pull reports
\* end-of-input: the loop breaks and the sequence ends.
TokensBreak ==
    /\ ~panicked
    /\ itPc = "loop"
    /\ LET r == ReadToken(src, pos) IN
         /\ r.err = EOF
         /\ pos' = r.pos
         /\ last' = [op |-> "ReadToken", n |-> 0, pos0 |-> pos, Type |-> r.Type,
                     Value |-> r.Value, err |-> r.err, word |-> <<>>]
    /\ prev' = last
    /\ itPc' = "done"
    /\ UNCHANGED <<src, panicked, yielded>>

\* TokensYield with the pair handed to the consumer twice.
TokensYield_Twice(keep) ==
    /\ ~panicked
    /\ itPc = "loop"
    /\ LET r == ReadToken(src, pos) IN
         /\ r.err # EOF
         /\ pos' = r.pos
         /\ last' = [op |-> "ReadToken", n |-> 0, pos0 |-> pos, Type |-> r.Type,
                     Value |-> r.Value, err |-> r.err, word |-> <<>>]
         /\ panicked' = (r.err = Panic)
         /\ yielded' = IF r.err = Panic THEN yielded
                       ELSE yielded \o << [Type |-> r.Type, Value |-> r.Value,
                                           err |-> r.err],
                                          [Type |-> r.Type, Value |-> r.Value,
                                           err |-> r.err] >>
         /\ itPc' = IF r.err # Panic /\ keep THEN "loop" ELSE "done"
    /\ prev' = last
    /\ UNCHANGED src

\* One turn of the loop of scanner.Tokens in which the pull reports anything
\* else: the pair is yielded, and the consumer's answer (keep: the body of
\* its range loop ran to its end; otherwise it broke out) decides whether
\* the loop goes on.
TokensYield(keep) ==
    /\ ~panicked
    /\ itPc = "loop"
    /\ LET r == ReadToken(src, pos) IN
         /\ r.err # EOF
         /\ pos' = r.pos
         /\ last' = [op |-> "ReadToken", n |-> 0, pos0 |-> pos, Type |-> r.Type,
                     Value |-> r.Value, err |-> r.err, word |-> <<>>]
         /\ panicked' = (r.err = Panic)
         /\ yielded' = IF r.err = Panic THEN yielded
                       ELSE Append(yielded, [Type |-> r.Type, Value |-> r.Value,
                                             err |-> r.err])
         /\ itPc' = IF r.err # Panic /\ keep THEN "loop" ELSE "done"
    /\ prev' = last
    /\ UNCHANGED src

Next == DoReadToken

NextCursor ==
    \/ \E n \in 0..MaxPeek : DoPeekRunes(n)
    \/ \E n \in 0..MaxPeek : DoReadRunes(n)

\* The owner of a scanner and of its reader calls them in any order.
NextMono ==
    \/ DoReadToken
    \/ \E n \in 0..MaxPeek : DoPeekRunes(n)
    \/ \E n \in 0..MaxPeek : DoReadRunes(n)

NextTokens ==
    \/ TokensBreak
    \/ \E keep \in BOOLEAN : TokensYield(keep)

Spec == Init /\ [][Next]_vars
SpecStr == InitStr /\ [][Next]_vars
SpecCursor == InitCursor /\ [][NextCursor]_vars
SpecEsc == InitEsc /\ [][Next]_vars
SpecOct == InitOct /\ [][Next]_vars
SpecDelim == InitDelim /\ [][Next]_vars
SpecSeq == InitSeq /\ [][NextTokens]_vars
SpecLead == InitLead /\ [][Next]_vars
SpecMono == InitMono /\ [][NextMono]_vars
SpecPull == InitPull /\ [][NextTokens]_vars
SpecB85 == InitB85 /\ [][Next]_vars
SpecTokens == InitTokens /\ [][NextTokens]_vars

(***************************************************************************)
(* Vocabulary of the properties, stated on the source text alone.          *)
(***************************************************************************)
\* The index of the first LF or FF after index i, or 0 when there is none.
RECURSIVE LineEnd(_, _)
LineEnd(s, i) ==
    IF i >= Len(s) THEN 0
    ELSE IF s[i + 1] \in {LF, FF} THEN i + 1
    ELSE LineEnd(s, i + 1)

\* The index of the first codepoint after position p that belongs neither
\* to a delimiter nor to a comment, or 0 when there is none.
RECURSIVE TokenStart(_, _)
TokenStart(s, p) ==
    IF p >= Len(s) THEN 0
    ELSE IF s[p + 1] \in {NUL, SP, TAB, CR, LF, BS, FF} THEN TokenStart(s, p + 1)
    ELSE IF s[p + 1] = PERCENT
         THEN IF LineEnd(s, p + 1) = 0 THEN 0 ELSE TokenStart(s, LineEnd(s, p + 1))
         ELSE p + 1

\* The index of the unescaped ')' that closes, at nesting depth 0, the
\* string whose body starts after index i, or 0 when the text ends first.
RECURSIVE StringClose(_, _, _)
StringClose(s, i, depth) ==
    IF i >= Len(s) THEN 0
    ELSE IF s[i + 1] = BACKSLASH THEN StringClose(s, i + 2, depth)
    ELSE IF s[i + 1] = LPAREN THEN StringClose(s, i + 1, depth + 1)
    ELSE IF s[i + 1] = RPAREN
         THEN IF depth = 0 THEN i + 1 ELSE StringClose(s, i + 1, depth - 1)
         ELSE StringClose(s, i + 1, depth)

IsToken(call) == call.op = "ReadToken" /\ call.err = NoError

IsWordToken(call) ==
    IsToken(call) /\ call.Type \in {INT_TOKEN, REAL_TOKEN, RADIX_TOKEN, NAME_TOKEN}

\* C1: the text of an Integer, Real, Radix or Name token returned without
\* error is exactly the run of source codepoints from the token's first
\* codepoint up to, and excluding, the delimiter that ended it (or up to
\* the end of the input).
C1_TextIsConsumedRun ==
    IsWordToken(last) =>
        LET first == TokenStart(src, last.pos0)
            end == IF src[pos] \in {NUL, SP, TAB, CR, LF, BS, FF} THEN pos - 1 ELSE pos
        IN  first > 0 /\ last.Value = SubSeq(src, first, end)

\* C2: scanning the text of an Integer, Real, Radix or Name token as a
\* fresh input returns, without error, a token of the same kind and text.
C2_RoundTrip ==
    IsWordToken(last) =>
        LET again == ReadToken(last.Value, 0) IN
            /\ again.err = NoError
            /\ again.Type = last.Type
            /\ again.Value = last.Value

\* C3: when the input ends after an opening '(' and before the ')' that
\* closes the string, the call returns a syntax error: not end-of-input,
\* not a token, no abort.
C3_UnterminatedStringIsSyntaxError ==
    LET first == TokenStart(src, last.pos0) IN
    (/\ last.op = "ReadToken"
     /\ first > 0
     /\ src[first] = LPAREN
     /\ StringClose(src, first, 0) = 0) => last.err.Type = "syntaxerror"

\* C4: a call returns end-of-input exactly when everything that remained
\* at the cursor when it started was delimiters and comments.
C4_EofIffOnlyBlanksRemain ==
    last.op = "ReadToken" =>
        ((last.err = EOF) <=> (TokenStart(src, last.pos0) = 0))

\* C5: every call returns a token, end-of-input or an error; none aborts.
C5_NoAbort ==
    last.op = "ReadToken" => last.err # Panic

\* C6: in the Tokens() view nothing is yielded for end-of-input, and
\* nothing is yielded after an error has been yielded, whatever the
\* consumer answers.
C6_NothingYieldedAfterError ==
    /\ \A i \in 1..Len(yielded) : yielded[i].err # EOF
    /\ \A i \in 1..Len(yielded) : yielded[i].err # NoError => i = Len(yielded)

\* C7: PeekRunes(n) fails whenever fewer than n codepoints remain.
C7_ShortPeekFails ==
    (last.op = "PeekRunes" /\ Len(src) - last.pos0 < last.n) => last.err # NoError

\* The three parts of C8 for a peek whose precondition is ok(call): the peek
\* returns the next n codepoints and leaves the position alone; a second
\* peek returns the same; a ReadRunes(n) that follows returns the same and
\* advances the position by n.
PeekThenConsume(ok(_)) ==
    /\ (last.op = "PeekRunes" /\ ok(last)) =>
            /\ last.err = NoError
            /\ last.word = SubSeq(src, last.pos0 + 1, last.pos0 + last.n)
            /\ pos = last.pos0
    /\ (last.op = "PeekRunes" /\ prev.op = "PeekRunes" /\ prev.n = last.n /\ ok(prev)) =>
            /\ last.pos0 = prev.pos0
            /\ last.err = prev.err
            /\ last.word = prev.word
    /\ (last.op = "ReadRunes" /\ prev.op = "PeekRunes" /\ prev.n = last.n /\ ok(prev)) =>
            /\ last.pos0 = prev.pos0
            /\ last.err = NoError
            /\ last.word = prev.word
            /\ pos = last.pos0 + last.n

EnoughRemain(call) == call.n >= 1 /\ Len(src) - call.pos0 >= call.n

NoRuneErrorAhead(call) ==
    \A i \in call.pos0 + 1..call.pos0 + call.n : src[i] # RuneError

WithinBuffer(call) ==
    ByteLen(SubSeq(src, call.pos0 + 1, call.pos0 + call.n)) <= BufferSize

EnoughWellFormedRemain(call) ==
    EnoughRemain(call) /\ NoRuneErrorAhead(call) /\ WithinBuffer(call)

\* C8 as stated: when at least n >= 1 codepoints remain, PeekRunes(n)
\* returns exactly the next n codepoints and leaves the position unchanged,
\* a repeated peek gives the same, and ReadRunes(n) then returns the same n
\* codepoints and advances the position by n.
C8_PeekThenConsume_AsStated == PeekThenConsume(EnoughRemain)

\* C8 as amended: the same, when at least n >= 1 codepoints remain and none
\* of the next n decodes to U+FFFD (a malformed byte or a literal U+FFFD),
\* for which PeekRunes reports a rune error, and the n codepoints fit in
\* the reader's buffer.
C8_PeekThenConsume == PeekThenConsume(EnoughWellFormedRemain)

C8_Witness ==
    /\ last.op = "ReadRunes"
    /\ prev.op = "PeekRunes"
    /\ prev.n = last.n
    /\ last.n = 2
    /\ last.pos0 = 1
    /\ EnoughWellFormedRemain(prev)
    /\ last.word = <<LowerX, Digit1>>
    /\ pos = 3

\* The number of decimal digits that follow index i.
RECURSIVE DigitRun(_, _)
DigitRun(s, i) ==
    IF i < Len(s) /\ s[i + 1] \in Digit0..Digit9 THEN 1 + DigitRun(s, i + 1) ELSE 0

SignAt(s, i) == IF i < Len(s) /\ s[i + 1] = MINUS THEN 1 ELSE 0

EndsAt(s, i) == i = Len(s) \/ s[i + 1] \in {NUL, SP, TAB, CR, LF, BS, FF}

\* The index of the last character of the text -?[0-9]+ that starts after
\* position p and is followed by a delimiter or the end, or 0 if the text
\* after p is not of that form.
IntegerEnd(s, p) ==
    LET digits == DigitRun(s, p + SignAt(s, p))
        end == p + SignAt(s, p) + digits
    IN  IF digits >= 1 /\ EndsAt(s, end) THEN end ELSE 0

\* The same for the text -?[0-9]*.[0-9]+([eE]-?[0-9]+)?
RealEnd(s, p) ==
    LET dot == p + SignAt(s, p) + DigitRun(s, p + SignAt(s, p)) + 1
        fraction == DigitRun(s, dot)
        mark == dot + fraction + 1
        exponent == DigitRun(s, mark + SignAt(s, mark))
        end == mark + SignAt(s, mark) + exponent
    IN  IF dot <= Len(s) /\ s[dot] = DOT /\ fraction >= 1
        THEN IF EndsAt(s, mark - 1) THEN mark - 1
             ELSE IF s[mark] \in {LowerE, UpperE} /\ exponent >= 1 /\ EndsAt(s, end)
                  THEN end
                  ELSE 0
        ELSE 0

\* What C9 and C10 promise of a call that starts at the first character of
\* a literal ending at index end: one token of the given kind, no error,
\* the literal as text, and the cursor past the literal and its delimiter.
ReturnsLiteral(type, end) ==
    /\ last.err = NoError
    /\ last.Type = type
    /\ last.Value = SubSeq(src, last.pos0 + 1, end)
    /\ pos = IF end < Len(src) THEN end + 1 ELSE end

\* C9: an optional '-' and one or more decimal digits, followed by a
\* delimiter or the end of the input, is returned as one Integer token
\* whose text is exactly those characters, without error.
C9_IntegerLiteral ==
    (last.op = "ReadToken" /\ IntegerEnd(src, last.pos0) > 0) =>
        ReturnsLiteral(INT_TOKEN, IntegerEnd(src, last.pos0))

C9_Witness ==
    /\ last.op = "ReadToken"
    /\ last.pos0 = 0
    /\ IntegerEnd(src, last.pos0) = 3
    /\ Len(src) > 3
    /\ last.Type = INT_TOKEN
    /\ last.Value = <<MINUS, Digit1, Digit1>>
    /\ pos = 4

\* C10: an optional '-', digits, '.', one or more digits and an optional
\* exponent (e or E, optional '-', one or more digits), followed by a
\* delimiter or the end of the input, is returned as one Real token whose
\* text is exactly those characters, without error.
C10_RealLiteral ==
    (last.op = "ReadToken" /\ RealEnd(src, last.pos0) > 0) =>
        ReturnsLiteral(REAL_TOKEN, RealEnd(src, last.pos0))

C10_Witness ==
    /\ last.op = "ReadToken"
    /\ RealEnd(src, last.pos0) = 5
    /\ last.Type = REAL_TOKEN
    /\ last.Value = <<DOT, Digit1, UpperE, MINUS, Digit1>>

\* The number of characters of 0-9a-zA-Z that follow index i.
RECURSIVE AlnumRun(_, _)
AlnumRun(s, i) ==
    IF i < Len(s) /\ s[i + 1] \in (48..57) \cup (97..122) \cup (65..90)
    THEN 1 + AlnumRun(s, i + 1)
    ELSE 0

\* The index of the last character of the text [0-9]+#[0-9a-zA-Z]+ that
\* starts after position p and is followed by a delimiter or the end, or 0
\* if the text after p is not of that form.
RadixEnd(s, p) ==
    LET hash == p + DigitRun(s, p) + 1
        end == hash + AlnumRun(s, hash)
    IN  IF DigitRun(s, p) >= 1 /\ hash <= Len(s) /\ s[hash] = HASH
           /\ AlnumRun(s, hash) >= 1 /\ EndsAt(s, end)
        THEN end
        ELSE 0

\* C11: one or more decimal digits, '#', and one or more characters of
\* 0-9a-zA-Z, followed by a delimiter or the end of the input, is returned
\* as one Radix token whose text is the whole literal, base and '#'
\* included, whatever the base and the digits are.
C11_RadixLiteral ==
    (last.op = "ReadToken" /\ RadixEnd(src, last.pos0) > 0) =>
        ReturnsLiteral(RADIX_TOKEN, RadixEnd(src, last.pos0))

C11_Witness ==
    /\ last.op = "ReadToken"
    /\ RadixEnd(src, last.pos0) = 4
    /\ last.Type = RADIX_TOKEN
    /\ last.err = NoError
    /\ last.Value = <<Digit1, HASH, LowerX, UpperE>>

\* The longest text -?[0-9]*(.[0-9]*([eE]-?[0-9]*)?)? that starts after
\* position p: the index of its last character, whether it holds a '.'
\* (the scan is a Real scan, otherwise an Integer scan) and whether it
\* holds an exponent marker.
NumericPrefix(s, p) ==
    LET int == p + SignAt(s, p) + DigitRun(s, p + SignAt(s, p))
        hasDot == int < Len(s) /\ s[int + 1] = DOT
        frac == int + 1 + DigitRun(s, int + 1)
        hasExp == hasDot /\ frac < Len(s) /\ s[frac + 1] \in {LowerE, UpperE}
        exp == frac + 1 + SignAt(s, frac + 1)
                 + DigitRun(s, frac + 1 + SignAt(s, frac + 1))
    IN  [end |-> IF hasExp THEN exp ELSE IF hasDot THEN frac ELSE int,
         hasDot |-> hasDot,
         hasExp |-> hasExp]

\* The index of the last codepoint of the run without delimiters that
\* holds index i.
RECURSIVE RunEnd(_, _)
RunEnd(s, i) ==
    IF i < Len(s) /\ s[i + 1] \notin {NUL, SP, TAB, CR, LF, BS, FF}
    THEN RunEnd(s, i + 1)
    ELSE i

\* The codepoint that ends the numeric prefix after p, or -1 at the end of
\* the input or when no numeric scan starts after p.
MetChar(s, p) ==
    LET end == NumericPrefix(s, p).end IN
    IF end > p /\ end < Len(s) THEN s[end + 1] ELSE -1

\* C12: when an Integer or Real scan meets a codepoint that is neither a
\* delimiter nor a digit, '.', '#', '-', 'e' or 'E', the call returns one
\* Name token, without error, whose text is the whole run from the token's
\* first character to the next delimiter or the end of the input.
C12_NumericFallsBackToName ==
    (/\ last.op = "ReadToken"
     /\ MetChar(src, last.pos0) # -1
     /\ MetChar(src, last.pos0) \notin
            {NUL, SP, TAB, CR, LF, BS, FF} \cup (Digit0..Digit9)
                \cup {DOT, HASH, MINUS, LowerE, UpperE}) =>
        ReturnsLiteral(NAME_TOKEN, RunEnd(src, last.pos0))

C12_Witness ==
    /\ last.op = "ReadToken"
    /\ last.pos0 = 0
    /\ NumericPrefix(src, 0).hasDot
    /\ MetChar(src, 0) = LowerX
    /\ last.Type = NAME_TOKEN
    /\ last.Value = <<Digit1, DOT, LowerX, Digit1>>
    /\ Len(src) = 5
    /\ pos = 5

\* C13: when a Real scan meets a second exponent marker, or a '-' that does
\* not directly follow the exponent marker, the call returns one Name token
\* whose text is what was accumulated, that character and the continuation
\* up to the next delimiter or the end of the input.
C13_RealFallsBackToName ==
    (/\ last.op = "ReadToken"
     /\ NumericPrefix(src, last.pos0).hasDot
     /\ MetChar(src, last.pos0) \in {LowerE, UpperE, MINUS}) =>
        ReturnsLiteral(NAME_TOKEN, RunEnd(src, last.pos0))

\* C14: a '#' read in an Integer scan whose text starts with '-' makes the
\* call return the syntax error of a negative radix base, and no token.
C14_NegativeRadixBase ==
    (/\ last.op = "ReadToken"
     /\ SignAt(src, last.pos0) = 1
     /\ last.pos0 + 1 + DigitRun(src, last.pos0 + 1) < Len(src)
     /\ src[last.pos0 + 1 + DigitRun(src, last.pos0 + 1) + 1] = HASH) =>
        /\ last.err = NewSyntaxError("radix number cannot have a negative base")
        /\ pos = last.pos0 + 1 + DigitRun(src, last.pos0 + 1) + 1

C14_Witness ==
    /\ last.op = "ReadToken"
    /\ src = <<MINUS, Digit1, HASH, Digit1, Digit1>>
    /\ last.err.Type = "syntaxerror"
    /\ pos = 3

\* C15: a numeric scan that reaches a delimiter or the end of the input
\* while the last accumulated character is '#' or an exponent marker
\* returns a syntax error and no token; no Radix token ends in '#' and no
\* Real token ends in 'e' or 'E'.
C15_TruncatedNumber ==
    /\ (/\ last.op = "ReadToken"
        /\ DigitRun(src, last.pos0) >= 1
        /\ last.pos0 + DigitRun(src, last.pos0) < Len(src)
        /\ src[last.pos0 + DigitRun(src, last.pos0) + 1] = HASH
        /\ EndsAt(src, last.pos0 + DigitRun(src, last.pos0) + 1)) =>
            /\ last.err.Type = "syntaxerror"
            /\ last.err.Message = "unexpected end of radix number"
    /\ (/\ last.op = "ReadToken"
        /\ NumericPrefix(src, last.pos0).hasExp
        /\ src[NumericPrefix(src, last.pos0).end] \in {LowerE, UpperE}
        /\ EndsAt(src, NumericPrefix(src, last.pos0).end)) =>
            /\ last.err.Type = "syntaxerror"
            /\ last.err.Message = "unexpected end of real number"
    /\ (IsToken(last) /\ last.Type = RADIX_TOKEN) =>
            last.Value[Len(last.Value)] # HASH
    /\ (IsToken(last) /\ last.Type = REAL_TOKEN) =>
            last.Value[Len(last.Value)] \notin {LowerE, UpperE}

C15_Witness ==
    /\ last.op = "ReadToken"
    /\ src = <<Digit1, HASH, SP, Digit1, DOT>>
    /\ last.pos0 = 0
    /\ last.err.Type = "syntaxerror"
    /\ pos = 3

IsHexDigit(c) == c \in (48..57) \cup (97..102) \cup (65..70)

\* The number of hex digits that follow index i.
RECURSIVE HexRun(_, _)
HexRun(s, i) ==
    IF i < Len(s) /\ IsHexDigit(s[i + 1]) THEN 1 + HexRun(s, i + 1) ELSE 0

\* C16: '>' after an odd number of hex digits appends one '0', so every
\* HexString token returned without error has a text of hex digits of even
\* length; the text of a body ended by '>' is the body between '<' and '>',
\* padded when its length is odd.
C16_HexTextPadded ==
    (IsToken(last) /\ last.Type = HEX_STRING_TOKEN) =>
        /\ \A i \in 1..Len(last.Value) : IsHexDigit(last.Value[i])
        /\ Len(last.Value) % 2 = 0
        /\ src[pos] = GT =>
            LET body == SubSeq(src, TokenStart(src, last.pos0) + 1, pos - 1) IN
            last.Value = IF Len(body) % 2 = 1 THEN Append(body, Digit0) ELSE body

\* The codepoint that ends the run of hex digits after a '<' at the token
\* start after p, or -1 when no hex body starts there or the input ends.
HexStop(s, p) ==
    LET first == TokenStart(s, p)
        stop == first + HexRun(s, first) + 1
    IN  IF first > 0 /\ s[first] = LT /\ first < Len(s) /\ s[first + 1] # TILDE
           /\ stop <= Len(s)
        THEN s[stop]
        ELSE -1

\* C17 as stated: in a HexString body a codepoint that is neither a hex
\* digit nor '>' makes the call return a syntax error and no token;
\* delimiters are not skipped.
C17_InvalidHexDigit_AsStated ==
    (/\ last.op = "ReadToken"
     /\ HexStop(src, last.pos0) # -1
     /\ HexStop(src, last.pos0) # GT) =>
        last.err = NewSyntaxError("invalid hexidecimal")

\* C17 as amended: the same, except that U+FFFD (or a malformed byte)
\* directly after the '<' makes the call return the rune error of the
\* peek that looks for '~', also an error and no token.
C17_InvalidHexDigit ==
    (/\ last.op = "ReadToken"
     /\ HexStop(src, last.pos0) # -1
     /\ HexStop(src, last.pos0) # GT) =>
        LET first == TokenStart(src, last.pos0) IN
        IF src[first + 1] = RuneError
        THEN last.err = RuneErr /\ pos = first
        ELSE /\ last.err = NewSyntaxError("invalid hexidecimal")
             /\ pos = first + HexRun(src, first) + 1

C17_Witness ==
    /\ last.op = "ReadToken"
    /\ src = <<LT, Digit1, SP, GT>>
    /\ last.err = NewSyntaxError("invalid hexidecimal")
    /\ pos = 3

\* The index of the first '~' after index i that is directly followed by
\* '>', or 0 when there is none.
RECURSIVE B85Close(_, _)
B85Close(s, i) ==
    IF i + 1 >= Len(s) THEN 0
    ELSE IF s[i + 1] = TILDE /\ s[i + 2] = GT THEN i + 1
    ELSE B85Close(s, i + 1)

\* Well-formed ASCII85: only whitespace (up to ' '), '!'..'u' and 'z';
\* 'z' stands alone as a group; groups have five characters, except a
\* last one of two to four. n is the fill of the open group.
RECURSIVE WellFormedAscii85(_, _)
WellFormedAscii85(body, n) ==
    IF body = <<>> THEN n # 1
    ELSE LET c == Head(body) IN
         CASE c <= 32 -> WellFormedAscii85(Tail(body), n)
           [] c = 122 -> n = 0 /\ WellFormedAscii85(Tail(body), 0)
           [] c >= 33 /\ c <= 117 -> WellFormedAscii85(Tail(body), (n + 1) % 5)
           [] OTHER -> FALSE

\* C18: a Base85String that reaches its '~>' with a body that is not
\* well-formed ASCII85 makes the call return the syntax error "invalid
\* base85" and no token.
C18_InvalidBase85 ==
    LET first == TokenStart(src, last.pos0)
        close == B85Close(src, first + 1)
    IN  (/\ last.op = "ReadToken"
         /\ first > 0
         /\ first < Len(src)
         /\ src[first] = LT
         /\ src[first + 1] = TILDE
         /\ close > 0
         /\ ~WellFormedAscii85(SubSeq(src, first + 2, close - 1), 0)) =>
            last.err = NewSyntaxError("invalid base85")

\* The character C19 gives for the named escape x, or -1.
NamedEscape(x) ==
    CASE x = 110 -> 10
      [] x = 114 -> 13
      [] x = 116 -> 9
      [] x = 98 -> 8
      [] x = 102 -> 12
      [] x \in {92, 40, 41} -> x
      [] OTHER -> -1

\* The reading C19 gives of the string whose body starts after index i:
\* kind "token" with the decoded text and the index of the closing ')',
\* when the body holds named escapes and line continuations only; kind
\* "other" when the text ends first or the body holds another escape.
\* With peekFails, a backslash and CR directly followed by U+FFFD is of
\* kind "runeerror", ending at the CR.
RECURSIVE StringReading(_, _, _, _, _)
StringReading(s, i, depth, text, peekFails) ==
    IF i >= Len(s) THEN [kind |-> "other", text |-> text, end |-> i]
    ELSE LET c == s[i + 1] IN
         CASE c = LPAREN ->
                StringReading(s, i + 1, depth + 1, Append(text, c), peekFails)
           [] c = RPAREN ->
                IF depth = 0 THEN [kind |-> "token", text |-> text, end |-> i + 1]
                ELSE StringReading(s, i + 1, depth - 1, Append(text, c), peekFails)
           [] c = BACKSLASH ->
                IF i + 1 >= Len(s) THEN [kind |-> "other", text |-> text, end |-> i]
                ELSE LET x == s[i + 2] IN
                     CASE NamedEscape(x) # -1 ->
                            StringReading(s, i + 2, depth,
                                          Append(text, NamedEscape(x)), peekFails)
                       [] x = LF -> StringReading(s, i + 2, depth, text, peekFails)
                       [] x = CR ->
                            IF i + 2 < Len(s) /\ s[i + 3] = LF
                            THEN StringReading(s, i + 3, depth, text, peekFails)
                            ELSE IF peekFails /\ i + 2 < Len(s) /\ s[i + 3] = RuneError
                            THEN [kind |-> "runeerror", text |-> text, end |-> i + 2]
                            ELSE StringReading(s, i + 2, depth, text, peekFails)
                       [] OTHER -> [kind |-> "other", text |-> text, end |-> i]
           [] OTHER -> StringReading(s, i + 1, depth, Append(text, c), peekFails)

ReadsStringAs(reading) ==
    /\ reading.kind = "token" =>
            /\ IsToken(last)
            /\ last.Type = LIT_STRING_TOKEN
            /\ last.Value = reading.text
            /\ pos = reading.end
    /\ reading.kind = "runeerror" =>
            /\ last.err = RuneErr
            /\ pos = reading.end

\* C19 as stated: a literal string of named escapes and line continuations
\* is returned with each named escape decoded to its one character, with
\* nothing for backslash LF, backslash CR and backslash CR LF, with raw LF
\* and CR LF unchanged, and with escaped parens outside the nesting count.
C19_NamedEscapes_AsStated ==
    (/\ last.op = "ReadToken"
     /\ TokenStart(src, last.pos0) > 0
     /\ src[TokenStart(src, last.pos0)] = LPAREN) =>
        ReadsStringAs(StringReading(src, TokenStart(src, last.pos0), 0, <<>>, FALSE))

\* C19 as amended: the same, except that backslash CR directly followed by
\* U+FFFD (or a malformed byte) makes the call return the rune error of
\* the peek that looks for the LF.
C19_NamedEscapes ==
    (/\ last.op = "ReadToken"
     /\ TokenStart(src, last.pos0) > 0
     /\ src[TokenStart(src, last.pos0)] = LPAREN) =>
        ReadsStringAs(StringReading(src, TokenStart(src, last.pos0), 0, <<>>, TRUE))

C19_Witness ==
    /\ IsToken(last)
    /\ last.Type = LIT_STRING_TOKEN
    /\ src = <<LPAREN, BACKSLASH, CR, LF, RPAREN>>
    /\ last.Value = <<>>
    /\ pos = 5

IsOctalDigit(c) == c \in 48..55

\* The reading C20 gives of the string whose body starts after index i:
\* kind "token" with the text and the index of the closing ')', when every
\* backslash of the body is followed by three octal digits or by a
\* backslash or a paren; kind "other" otherwise.
RECURSIVE OctalReading(_, _, _, _)
OctalReading(s, i, depth, text) ==
    IF i >= Len(s) THEN [kind |-> "other", text |-> text, end |-> i]
    ELSE LET c == s[i + 1] IN
         CASE c = LPAREN -> OctalReading(s, i + 1, depth + 1, Append(text, c))
           [] c = RPAREN ->
                IF depth = 0 THEN [kind |-> "token", text |-> text, end |-> i + 1]
                ELSE OctalReading(s, i + 1, depth - 1, Append(text, c))
           [] c = BACKSLASH ->
                IF /\ i + 4 <= Len(s)
                   /\ \A k \in 2..4 : IsOctalDigit(s[i + k])
                THEN OctalReading(s, i + 4, depth,
                        Append(text, 64 * (s[i + 2] - 48) + 8 * (s[i + 3] - 48)
                                     + (s[i + 4] - 48)))
                ELSE IF i + 2 <= Len(s) /\ s[i + 2] \in {92, 40, 41}
                THEN OctalReading(s, i + 2, depth, Append(text, s[i + 2]))
                ELSE [kind |-> "other", text |-> text, end |-> i]
           [] OTHER -> OctalReading(s, i + 1, depth, Append(text, c))

\* C20: in a literal string a backslash and three octal digits append the
\* one codepoint whose value is their base-8 number, not cut to a byte,
\* and the scan goes on directly after the third digit.
C20_OctalEscape ==
    (/\ last.op = "ReadToken"
     /\ TokenStart(src, last.pos0) > 0
     /\ src[TokenStart(src, last.pos0)] = LPAREN) =>
        ReadsStringAs(OctalReading(src, TokenStart(src, last.pos0), 0, <<>>))

C20_Witness ==
    /\ IsToken(last)
    /\ last.Type = LIT_STRING_TOKEN
    /\ src = <<LPAREN, BACKSLASH, Digit7, Digit7, Digit7, RPAREN>>
    /\ last.Value = <<511>>
    /\ pos = 6

\* The index of the first codepoint after position p that is not a
\* delimiter, or 0 when there is none.
RECURSIVE DispatchAt(_, _)
DispatchAt(s, p) ==
    IF p >= Len(s) THEN 0
    ELSE IF s[p + 1] \in {0, 32, 9, 13, 10, 8, 12} THEN DispatchAt(s, p + 1)
    ELSE p + 1

\* C21: a '%' at token dispatch starts a comment that runs through the
\* next LF or FF, or to the end of the input: the call that reads it
\* returns what a call started directly after that LF or FF returns (and
\* end-of-input when the comment is not ended), the text of a word token
\* starts after the comment, and a rest of delimiters and comments only
\* gives end-of-input and no token.
C21_CommentDiscarded ==
    LET at == DispatchAt(src, last.pos0)
        first == TokenStart(src, last.pos0)
    IN  last.op = "ReadToken" =>
            /\ (at > 0 /\ src[at] = PERCENT) =>
                    IF LineEnd(src, at) = 0
                    THEN last.err = EOF /\ pos = Len(src)
                    ELSE LET restart == ReadToken(src, LineEnd(src, at)) IN
                         /\ last.Type = restart.Type
                         /\ last.Value = restart.Value
                         /\ last.err = restart.err
                         /\ pos = restart.pos
                         /\ pos >= LineEnd(src, at)
            /\ (IsWordToken(last) /\ at > 0 /\ src[at] = PERCENT) =>
                    /\ first > LineEnd(src, at)
                    /\ last.Value[1] = src[first]
            /\ first = 0 =>
                    /\ last.err = EOF
                    /\ last.Type = UNKNOWN_TOKEN
                    /\ last.Value = <<>>

C21_Witness ==
    /\ IsToken(last)
    /\ src = <<PERCENT, LowerX, FF, LowerX, SP>>
    /\ last.pos0 = 0
    /\ last.Type = NAME_TOKEN
    /\ last.Value = <<LowerX>>
    /\ pos = 5

\* C22: a Name directly followed by one of the seven delimiters ends at
\* that delimiter: the text is the characters before it, and the cursor
\* is left directly after it.
C22_NameEndsAtDelimiter ==
    LET first == TokenStart(src, last.pos0) IN
    (/\ last.op = "ReadToken"
     /\ first > 0
     /\ src[first] \notin (48..57) \cup {45, 46, 40, 60}
     /\ RunEnd(src, first) < Len(src)) =>
        /\ src[RunEnd(src, first) + 1] \in {0, 32, 9, 13, 10, 8, 12}
        /\ IsToken(last)
        /\ last.Type = NAME_TOKEN
        /\ last.Value = SubSeq(src, first, RunEnd(src, first))
        /\ \A i \in 1..Len(last.Value) :
                last.Value[i] \notin {0, 32, 9, 13, 10, 8, 12}
        /\ pos = RunEnd(src, first) + 1

C22_Witness ==
    /\ IsToken(last)
    /\ src = <<LowerX, PERCENT, BS, LowerX>>
    /\ last.pos0 = 0
    /\ last.Type = NAME_TOKEN
    /\ last.Value = <<LowerX, PERCENT>>
    /\ pos = 3

\* The tokens of the text after position p, when it is made of names,
\* integers, reals and literal strings without escapes, separated by
\* delimiters and comments; ok is FALSE when it is not.
RECURSIVE SourceTokens(_, _)
SourceTokens(s, p) ==
    LET first == TokenStart(s, p) IN
    IF first = 0 THEN [ok |-> TRUE, tokens |-> <<>>]
    ELSE IF s[first] = LPAREN
    THEN LET close == StringClose(s, first, 0) IN
         IF close = 0 \/ \E i \in first..close : s[i] = BACKSLASH
         THEN [ok |-> FALSE, tokens |-> <<>>]
         ELSE LET rest == SourceTokens(s, close) IN
              [ok |-> rest.ok,
               tokens |-> <<[Type |-> LIT_STRING_TOKEN,
                             Value |-> SubSeq(s, first + 1, close - 1),
                             err |-> NoError]>> \o rest.tokens]
    ELSE LET end == RunEnd(s, first)
             type == IF IntegerEnd(s, first - 1) = end THEN INT_TOKEN
                     ELSE IF RealEnd(s, first - 1) = end THEN REAL_TOKEN
                     ELSE IF s[first] \notin (48..57) \cup {45, 46, 60}
                          THEN NAME_TOKEN
                          ELSE UNKNOWN_TOKEN
             rest == SourceTokens(s, IF end < Len(s) THEN end + 1 ELSE end)
         IN  [ok |-> type # UNKNOWN_TOKEN /\ rest.ok,
              tokens |-> <<[Type |-> type, Value |-> SubSeq(s, first, end),
                            err |-> NoError]>> \o rest.tokens]

\* C23: for a text of well-formed tokens the Tokens() view yields the
\* tokens of the text one by one in source order, none skipped, doubled
\* or out of order; when as many are yielded as the text holds, only
\* delimiters and comments remain, and the view ends with all of them
\* yielded when the pull reports end-of-input.
C23_TokensInSourceOrder ==
    LET expected == SourceTokens(src, 0) IN
    expected.ok =>
        /\ ~panicked
        /\ Len(yielded) <= Len(expected.tokens)
        /\ yielded = SubSeq(expected.tokens, 1, Len(yielded))
        /\ Len(yielded) = Len(expected.tokens) => TokenStart(src, pos) = 0
        /\ last.err = EOF => yielded = expected.tokens /\ itPc = "done"

C23_Witness ==
    /\ src = <<LPAREN, RPAREN, PERCENT, LF, LowerX>>
    /\ last.err = EOF
    /\ itPc = "done"
    /\ yielded = <<[Type |-> LIT_STRING_TOKEN, Value |-> <<>>, err |-> NoError],
                   [Type |-> NAME_TOKEN, Value |-> <<LowerX>>, err |-> NoError]>>

\* The number of octal digits, three at most, that follow index i.
OctalRun(s, i) ==
    IF i < Len(s) /\ IsOctalDigit(s[i + 1])
    THEN IF i + 1 < Len(s) /\ IsOctalDigit(s[i + 2])
         THEN IF i + 2 < Len(s) /\ IsOctalDigit(s[i + 3]) THEN 3 ELSE 2
         ELSE 1
    ELSE 0

\* The reading spec 4.4 gives of the string whose body starts after index
\* i: named escapes decoded, an octal escape of one to three digits
\* replaced by the codepoint of its value, any other escaped character
\* stored as it is; uses records which of "short" (an octal escape of one
\* or two digits) and "verbatim" (another escaped character) occurred.
\* Kind "other" when the text ends first or a backslash is followed by LF
\* or CR.
RECURSIVE EscapeReading(_, _, _, _, _)
EscapeReading(s, i, depth, text, uses) ==
    IF i >= Len(s) THEN [kind |-> "other", text |-> text, end |-> i, uses |-> uses]
    ELSE LET c == s[i + 1] IN
         CASE c = LPAREN -> EscapeReading(s, i + 1, depth + 1, Append(text, c), uses)
           [] c = RPAREN ->
                IF depth = 0
                THEN [kind |-> "token", text |-> text, end |-> i + 1, uses |-> uses]
                ELSE EscapeReading(s, i + 1, depth - 1, Append(text, c), uses)
           [] c = BACKSLASH ->
                IF i + 1 >= Len(s) \/ s[i + 2] \in {10, 13}
                THEN [kind |-> "other", text |-> text, end |-> i, uses |-> uses]
                ELSE LET x == s[i + 2]
                         n == OctalRun(s, i + 1)
                     IN  CASE NamedEscape(x) # -1 ->
                                EscapeReading(s, i + 2, depth,
                                              Append(text, NamedEscape(x)), uses)
                           [] n = 3 ->
                                EscapeReading(s, i + 4, depth,
                                    Append(text, 64 * (s[i + 2] - 48)
                                                 + 8 * (s[i + 3] - 48) + (s[i + 4] - 48)),
                                    uses)
                           [] n = 2 ->
                                EscapeReading(s, i + 3, depth,
                                    Append(text, 8 * (s[i + 2] - 48) + (s[i + 3] - 48)),
                                    uses \cup {"short"})
                           [] n = 1 ->
                                EscapeReading(s, i + 2, depth,
                                    Append(text, s[i + 2] - 48), uses \cup {"short"})
                           [] OTHER ->
                                EscapeReading(s, i + 2, depth, Append(text, x),
                                              uses \cup {"verbatim"})
           [] OTHER -> EscapeReading(s, i + 1, depth, Append(text, c), uses)

\* C24: a backslash followed by one or two octal digits and then another
\* character is accepted: the codepoint of the digits' base-8 value is
\* appended, the scan goes on at the character after them, and no error
\* is raised.
C24_ShortOctalEscape ==
    LET first == TokenStart(src, last.pos0)
        reading == EscapeReading(src, first, 0, <<>>, {})
    IN  (/\ last.op = "ReadToken"
         /\ first > 0
         /\ src[first] = LPAREN
         /\ reading.uses = {"short"}) => ReadsStringAs(reading)

\* C25: a backslash followed by a character that is not a named escape,
\* LF, CR or an octal digit appends that character as it is and drops
\* the backslash only.
C25_OtherEscapeVerbatim ==
    LET first == TokenStart(src, last.pos0)
        reading == EscapeReading(src, first, 0, <<>>, {})
    IN  (/\ last.op = "ReadToken"
         /\ first > 0
         /\ src[first] = LPAREN
         /\ reading.uses = {"verbatim"}) => ReadsStringAs(reading)

C25_Witness ==
    /\ IsToken(last)
    /\ last.Type = LIT_STRING_TOKEN
    /\ src = <<LPAREN, BACKSLASH, Digit9, Digit1, RPAREN>>
    /\ last.Value = <<Digit9, Digit1>>
    /\ pos = 5

\* C26: the nesting count of a literal string scan starts at 0, goes up at
\* each unescaped '(' and down at each unescaped ')' read while it is
\* positive; the token ends exactly at the first unescaped ')' read while
\* the count is 0, which is consumed and not stored, and every other
\* unescaped paren is stored (a body without backslash is the text).
C26_EndsAtClosingParen ==
    LET first == TokenStart(src, last.pos0)
        close == StringClose(src, first, 0)
    IN  /\ (IsToken(last) /\ last.Type = LIT_STRING_TOKEN) =>
                /\ close > 0
                /\ pos = close
        /\ (/\ last.op = "ReadToken"
            /\ first > 0
            /\ src[first] = LPAREN
            /\ close > 0
            /\ \A i \in first..close : src[i] # BACKSLASH) =>
                /\ IsToken(last)
                /\ last.Type = LIT_STRING_TOKEN
                /\ last.Value = SubSeq(src, first + 1, close - 1)
                /\ pos = close

\* Every ')' of text closes an earlier '(' of text and no '(' is left
\* open; depth is the number of '(' open so far.
RECURSIVE Balanced(_, _)
Balanced(text, depth) ==
    IF text = <<>> THEN depth = 0
    ELSE CASE Head(text) = 40 -> Balanced(Tail(text), depth + 1)
           [] Head(text) = 41 -> depth > 0 /\ Balanced(Tail(text), depth - 1)
           [] OTHER -> Balanced(Tail(text), depth)

\* Some backslash between index i and index end is followed by a paren or
\* by an octal digit.
RECURSIVE HasParenOrOctalEscape(_, _, _)
HasParenOrOctalEscape(s, i, end) ==
    IF i >= end \/ i >= Len(s) THEN FALSE
    ELSE IF s[i + 1] = BACKSLASH
         THEN \/ i + 1 < Len(s) /\ (s[i + 2] \in {40, 41} \/ IsOctalDigit(s[i + 2]))
              \/ HasParenOrOctalEscape(s, i + 2, end)
         ELSE HasParenOrOctalEscape(s, i + 1, end)

\* C27 as stated: the text of every LiteralString token returned without
\* error has balanced parentheses.
C27_BalancedText_AsStated ==
    (IsToken(last) /\ last.Type = LIT_STRING_TOKEN) => Balanced(last.Value, 0)

\* C27 as amended: the same for a body that holds neither an escaped paren
\* nor an octal escape; the paren such an escape stores is not counted.
C27_BalancedText ==
    (/\ IsToken(last)
     /\ last.Type = LIT_STRING_TOKEN
     /\ ~HasParenOrOctalEscape(src, TokenStart(src, last.pos0), pos)) =>
        Balanced(last.Value, 0)

C27_Witness ==
    /\ IsToken(last)
    /\ last.Type = LIT_STRING_TOKEN
    /\ src = <<LPAREN, LPAREN, RPAREN, RPAREN>>
    /\ last.Value = <<LPAREN, RPAREN>>
    /\ pos = 4

\* C28: the text of every Integer token returned without error is an
\* optional '-' followed by at least one decimal digit.
C28_IntegerText ==
    (IsToken(last) /\ last.Type = INT_TOKEN) =>
        LET sign == SignAt(last.Value, 0) IN
        /\ Len(last.Value) > sign
        /\ \A i \in (sign + 1)..Len(last.Value) : last.Value[i] \in 48..57

\* The index of the first 'e' or 'E' of text after index i, or 0.
RECURSIVE MarkerAt(_, _)
MarkerAt(text, i) ==
    IF i >= Len(text) THEN 0
    ELSE IF text[i + 1] \in {101, 69} THEN i + 1
    ELSE MarkerAt(text, i + 1)

\* C29: a Real token returned without error whose text holds an exponent
\* marker has at least one decimal digit after the marker and its
\* optional '-'.
C29_ExponentHasDigits ==
    (IsToken(last) /\ last.Type = REAL_TOKEN /\ MarkerAt(last.Value, 0) > 0) =>
        LET mark == MarkerAt(last.Value, 0) IN
        DigitRun(last.Value, mark + SignAt(last.Value, mark)) >= 1

\* C30: the text of every Real token returned without error is an optional
\* '-', digits if any, one '.', digits if any and then, optionally, one
\* exponent marker, an optional '-' and digits; digits directly followed
\* by an exponent marker, without '.', are returned as a Name.
C30_RealText ==
    /\ (IsToken(last) /\ last.Type = REAL_TOKEN) =>
            LET dot == SignAt(last.Value, 0) + DigitRun(last.Value, SignAt(last.Value, 0)) + 1
                frac == dot + DigitRun(last.Value, dot)
                exp == frac + 1 + SignAt(last.Value, frac + 1)
            IN  /\ dot <= Len(last.Value)
                /\ last.Value[dot] = 46
                /\ \/ frac = Len(last.Value)
                   \/ /\ last.Value[frac + 1] \in {101, 69}
                      /\ DigitRun(last.Value, exp) >= 1
                      /\ exp + DigitRun(last.Value, exp) = Len(last.Value)
    /\ (/\ last.op = "ReadToken"
        /\ DigitRun(src, last.pos0 + SignAt(src, last.pos0)) >= 1
        /\ ~NumericPrefix(src, last.pos0).hasDot
        /\ MetChar(src, last.pos0) \in {101, 69}) =>
            ReturnsLiteral(NAME_TOKEN, RunEnd(src, last.pos0))

\* The reading C31 gives of the Base85String whose body starts after
\* index i: kind "token" with the codepoints up to the first '~' directly
\* followed by '>' and the index of that '>'; kind "other" when the text
\* ends first.  With peekFails, a '~' directly followed by U+FFFD is of
\* kind "runeerror", ending at the '~'.
RECURSIVE Base85Reading(_, _, _, _)
Base85Reading(s, i, text, peekFails) ==
    IF i >= Len(s) THEN [kind |-> "other", text |-> text, end |-> i]
    ELSE IF s[i + 1] = 126
    THEN IF i + 1 >= Len(s) THEN [kind |-> "other", text |-> text, end |-> i]
         ELSE IF s[i + 2] = 62 THEN [kind |-> "token", text |-> text, end |-> i + 2]
         ELSE IF peekFails /\ s[i + 2] = RuneError
         THEN [kind |-> "runeerror", text |-> text, end |-> i + 1]
         ELSE Base85Reading(s, i + 1, Append(text, 126), peekFails)
    ELSE Base85Reading(s, i + 1, Append(text, s[i + 1]), peekFails)

\* What C31 says of a call that starts at a '<' at index first: after
\* "<~" the token is a Base85String with the text and the end of the
\* reading (the rune error of the reading when peekFails); after '<' and
\* another codepoint the scan is a HexString scan (when peekFails, the
\* rune error of the peek if that codepoint is U+FFFD).
LeadSelects(first, peekFails) ==
    IF src[first + 1] = 126
    THEN LET reading == Base85Reading(src, first + 1, <<>>, peekFails) IN
         /\ reading.kind = "token" =>
                /\ last.Type = BASE85_STRING_TOKEN
                /\ last.Value = reading.text
                /\ pos = reading.end
         /\ reading.kind = "runeerror" =>
                /\ last.err = RuneErr
                /\ pos = reading.end
    ELSE IF peekFails /\ src[first + 1] = RuneError
         THEN last.err = RuneErr /\ pos = first
         ELSE last.Type = HEX_STRING_TOKEN

\* C31 as stated: the text of a Base85String is the source codepoints
\* strictly between "<~" and the first following "~>"; both pairs are
\* consumed and not stored, a '~' not directly followed by '>' is stored,
\* and '<' followed by anything but '~' selects HexString.
C31_Base85Text_AsStated ==
    LET first == TokenStart(src, last.pos0) IN
    (/\ last.op = "ReadToken"
     /\ first > 0
     /\ first < Len(src)
     /\ src[first] = LT) => LeadSelects(first, FALSE)

\* C31 as amended: the same, except that U+FFFD (or a malformed byte)
\* directly after the '<' or directly after a '~' of the body makes the
\* call return the rune error of the one-codepoint peek.
C31_Base85Text ==
    LET first == TokenStart(src, last.pos0) IN
    (/\ last.op = "ReadToken"
     /\ first > 0
     /\ first < Len(src)
     /\ src[first] = LT) => LeadSelects(first, TRUE)

C31_Witness ==
    /\ IsToken(last)
    /\ last.Type = BASE85_STRING_TOKEN
    /\ src = <<LT, TILDE, TILDE, Digit1, TILDE, GT>>
    /\ last.Value = <<TILDE, Digit1>>
    /\ pos = 6

\* C32: when the input ends inside a HexString body before '>' or inside
\* a Base85String body before "~>", the call returns the token with what
\* was accumulated and no error; the hex text is not padded.
C32_EndOfInputEndsToken ==
    LET first == TokenStart(src, last.pos0) IN
    (/\ last.op = "ReadToken"
     /\ first > 0
     /\ first < Len(src)
     /\ src[first] = LT) =>
        /\ (\A i \in (first + 1)..Len(src) : IsHexDigit(src[i])) =>
                /\ IsToken(last)
                /\ last.Type = HEX_STRING_TOKEN
                /\ last.Value = SubSeq(src, first + 1, Len(src))
                /\ pos = Len(src)
        /\ (/\ src[first + 1] = 126
            /\ Base85Reading(src, first + 1, <<>>, TRUE).kind = "other") =>
                /\ IsToken(last)
                /\ last.Type = BASE85_STRING_TOKEN
                /\ last.Value = SubSeq(src, first + 2, Len(src))
                /\ pos = Len(src)

\* C33: across any sequence of ReadToken, PeekRunes and ReadRunes calls
\* the read position never decreases: a peek leaves it unchanged, a read
\* while codepoints remain moves it forward, ReadRunes moves it by the
\* codepoints it returns, which are the next ones of the source, and the
\* text of a token never holds more than the call consumed (no codepoint
\* is read twice).
C33_PositionNeverDecreases ==
    [][/\ pos' >= pos
       /\ pos' <= Len(src)
       /\ last'.op = "PeekRunes" => pos' = pos
       /\ last'.op = "ReadRunes" =>
            /\ pos' = pos + Len(last'.word)
            /\ last'.word = SubSeq(src, pos + 1, pos')
            /\ (last'.n >= 1 /\ pos < Len(src)) => pos' > pos
       /\ last'.op = "ReadToken" =>
            /\ pos < Len(src) => pos' > pos
            /\ Len(last'.Value) <= pos' - pos
            /\ IsWordToken(last') => last'.Value[1] = src[TokenStart(src, pos)]
      ]_vars

C33_Witness ==
    /\ prev.op = "PeekRunes"
    /\ prev.word = <<Digit1, LowerX>>
    /\ IsToken(last)
    /\ last.Type = NAME_TOKEN
    /\ last.Value = <<Digit1, LowerX>>
    /\ last.pos0 = 0
    /\ pos = 3

\* C34: every call on a finite input ends by returning, and a call that
\* returns a token or an error other than end-of-input has consumed at
\* least one codepoint; so a loop that pulls until end-of-input gets at
\* most as many tokens and errors as the input has codepoints, and is cut
\* by nothing but end-of-input or its consumer.
C34_PullLoopEnds ==
    /\ last.op = "ReadToken" =>
            /\ last.err # Panic
            /\ last.err # EOF => pos > last.pos0
    /\ Len(yielded) <= Len(src)
    /\ Len(yielded) <= pos
    /\ ~panicked

====
